---- MODULE Spec2Model ----
(***************************************************************************)
(* A model of the wcs-rs header resolution pipeline:                       *)
(*   header.rs      WCSHeader::new and its accessors                       *)
(*   coo_system.rs  RadeSys::parse, CooSystem::parse                       *)
(*   projection.rs  Zpn / Cop / Coe / Cod / Coo parse_internal_proj_params *)
(*   sip.rs         retrieve_sip_coeffs, parse_sip                         *)
(* Text is a sequence of one-character strings.  An f64 read from a        *)
(* decimal literal is the pair (m, e) standing for m * 10^-e, normalised so *)
(* that "2" and "2.0" are the same value.                                   *)
(***************************************************************************)
EXTENDS Integers, Sequences, FiniteSets, TLC

VARIABLES
    s,        \* the header text handed to WCSHeader::new
    radesys,  \* what WCSHeader::get_radesys yields for this header
    offset,   \* WCSHeader::new: byte offset of the next record
    key,      \* WCSHeader::new: `key` of the last record that had a delimiter
    value,    \* WCSHeader::new: `value` of that record, comment removed
    naxis1,
    naxis2,
    ctype1,
    ctype2,
    cards,    \* HashMap<String, f64>
    pc,       \* "new" | "panic" | "parsed" | "resolved"
    out       \* the value returned by the resolver that ran

vars == <<s, radesys, offset, key, value, naxis1, naxis2, ctype1, ctype2, cards, pc, out>>

-----------------------------------------------------------------------------
(* Bounds of the model *)

\* number of complete records in a header text of the record-level inputs
MaxRecords == 2
\* number of PV_k cards in a header text of the projection inputs
MaxPVCards == 2
\* largest <tag>_ORDER value in a header text of the distortion inputs
MaxOrder == 2

(* Program constants *)

FITS_LINE_LENGTH == 80
\* the last index of the PV_0 .. PV_20 key table of Zpn
NPV == 20
\* width of a padded keyword such as "PV_1    "
KeyWidth == 8

-----------------------------------------------------------------------------
(* str *)

Chars(str) == [i \in 1..Len(str) |-> SubSeq(str, i, i)]

Digits == {"0", "1", "2", "3", "4", "5", "6", "7", "8", "9"}

DigitVal(c) ==
    CASE c = "0" -> 0 [] c = "1" -> 1 [] c = "2" -> 2 [] c = "3" -> 3
      [] c = "4" -> 4 [] c = "5" -> 5 [] c = "6" -> 6 [] c = "7" -> 7
      [] c = "8" -> 8 [] c = "9" -> 9

DigitChar(d) == SubSeq("0123456789", d + 1, d + 1)

\* char::is_whitespace, on the alphabet of the inputs
IsWhitespace(c) == c = " "

\* the first index at or after i that holds no whitespace (Len(t) + 1 if none)
RECURSIVE SkipWhitespace(_, _)
SkipWhitespace(t, i) ==
    IF i <= Len(t) /\ IsWhitespace(t[i]) THEN SkipWhitespace(t, i + 1) ELSE i

\* the last index at or before i that holds no whitespace (0 if none)
RECURSIVE SkipWhitespaceBack(_, _)
SkipWhitespaceBack(t, i) ==
    IF i >= 1 /\ IsWhitespace(t[i]) THEN SkipWhitespaceBack(t, i - 1) ELSE i

\* str::trim
trim(t) == SubSeq(t, SkipWhitespace(t, 1), SkipWhitespaceBack(t, Len(t)))

\* str::find from index i on: the 1-based index of the first occurrence of
\* pat in t at or after i, 0 if none
FindFrom(t, pat, i) ==
    LET hits == {x \in i..(Len(t) - Len(pat) + 1) :
                    \A j \in 1..Len(pat) : t[x + j - 1] = pat[j]}
    IN IF hits = {} THEN 0 ELSE CHOOSE x \in hits : \A y \in hits : x <= y

find(t, pat) == FindFrom(t, pat, 1)

\* str::split(pat), collected: the pieces between the occurrences of pat
RECURSIVE SplitFrom(_, _, _)
SplitFrom(t, pat, from) ==
    LET i == FindFrom(t, pat, from) IN
    IF i = 0 THEN <<SubSeq(t, from, Len(t))>>
    ELSE <<SubSeq(t, from, i - 1)>> \o SplitFrom(t, pat, i + Len(pat))

split(t, pat) == SplitFrom(t, pat, 1)

\* str::replace(c, "")
remove(t, c) == SelectSeq(t, LAMBDA x : x # c)

\* the digits of a decimal literal, read left to right
RECURSIVE DecValue(_, _)
DecValue(t, acc) ==
    IF t = <<>> THEN acc ELSE DecValue(Tail(t), 10 * acc + DigitVal(Head(t)))

AllDigits(t) == \A i \in 1..Len(t) : t[i] \in Digits

\* format!("{}", n) of a non-negative integer
RECURSIVE ToDec(_)
ToDec(n) ==
    IF n < 10 THEN <<DigitChar(n)>> ELSE ToDec(n \div 10) \o <<DigitChar(n % 10)>>

\* a keyword or record filled with spaces to width n
RECURSIVE Spaces(_)
Spaces(n) == IF n <= 0 THEN <<>> ELSE <<" ">> \o Spaces(n - 1)

Pad(t, n) == t \o Spaces(n - Len(t))

Ok(v) == [ok |-> TRUE, val |-> v]
Err(e) == [ok |-> FALSE, err |-> e]
Some(v) == [some |-> TRUE, val |-> v]
None == [some |-> FALSE]

\* <u64 as FromStr>::from_str: an optional '+', then one or more digits
\* (the literals of the inputs are far below 2^64, where it would overflow)
parse_u64(t) ==
    LET body == IF t # <<>> /\ Head(t) = "+" THEN Tail(t) ELSE t IN
    IF body # <<>> /\ AllDigits(body)
    THEN Ok(DecValue(body, 0))
    ELSE Err("ParseIntError")

\* an f64 with value m * 10^-e; trailing zeros of the fraction carry no value
RECURSIVE F64(_, _)
F64(m, e) == IF e > 0 /\ m % 10 = 0 THEN F64(m \div 10, e - 1) ELSE [m |-> m, e |-> e]

Zero == F64(0, 0)

\* <f64 as FromStr>::from_str on decimal literals: an optional sign, then
\* digits with an optional fraction, or a fraction alone.  (Exponents and the
\* inf / nan spellings are outside the alphabet of the inputs.)
parse_f64(t) ==
    LET neg  == t # <<>> /\ Head(t) = "-"
        body == IF t # <<>> /\ Head(t) \in {"+", "-"} THEN Tail(t) ELSE t
        dot  == find(body, <<".">>)
        int  == IF dot = 0 THEN body ELSE SubSeq(body, 1, dot - 1)
        frac == IF dot = 0 THEN <<>> ELSE SubSeq(body, dot + 1, Len(body))
        mag  == DecValue(int \o frac, 0)
    IN
    IF AllDigits(int) /\ AllDigits(frac) /\ Len(int) + Len(frac) > 0
    THEN Ok(F64(IF neg THEN 0 - mag ELSE mag, Len(frac)))
    ELSE Err("ParseFloatError")

-----------------------------------------------------------------------------
(* header.rs *)

Header == [naxis1 |-> naxis1, naxis2 |-> naxis2,
           ctype1 |-> ctype1, ctype2 |-> ctype2, cards |-> cards]

\* let line = &s[offset..offset + FITS_LINE_LENGTH]: the slice is in range
LineInRange(text, off) == off + FITS_LINE_LENGTH <= Len(text)

Line(text, off) == SubSeq(text, off + 1, off + FITS_LINE_LENGTH)

\* line.split("= "); key = iter.next(); value = iter.next();
\* key.trim(); value.split('/').next().unwrap().trim()
KeyValue(line) ==
    LET pieces == split(line, <<"=", " ">>) IN
    IF Len(pieces) < 2 THEN [has |-> FALSE]
    ELSE [has   |-> TRUE,
          key   |-> trim(pieces[1]),
          value |-> trim(split(pieces[2], <<"/">>)[1])]

HasKeyValue(line) == KeyValue(line).has

LineKey(line) == KeyValue(line).key

LineValue(line) == KeyValue(line).value

\* cards.insert(key, value): the last insertion of a key wins
InsertFirstWins(map, k, v) ==
    IF k \in DOMAIN map THEN map
    ELSE [x \in DOMAIN map \cup {k} |-> IF x = k THEN v ELSE map[x]]

insert(map, k, v) == [x \in DOMAIN map \cup {k} |-> IF x = k THEN v ELSE map[x]]

NAXIS1 == Chars("NAXIS1")
NAXIS2 == Chars("NAXIS2")
CTYPE1 == Chars("CTYPE1")
CTYPE2 == Chars("CTYPE2")

\* one iteration of `while offset < s.len()`
new_loop ==
    /\ pc = "new"
    /\ offset < Len(s)
    /\ IF ~LineInRange(s, offset)
       THEN \* the slice panics: byte index out of range
            /\ pc' = "panic"
            /\ UNCHANGED <<offset, key, value, naxis1, naxis2, ctype1, ctype2, cards>>
       ELSE \E kv \in {KeyValue(Line(s, offset))} :
            /\ offset' = offset + FITS_LINE_LENGTH
            /\ IF ~kv.has
               THEN UNCHANGED <<key, value, naxis1, naxis2, ctype1, ctype2, cards, pc>>
               ELSE /\ key' = kv.key
                    /\ value' = kv.value
                    /\ CASE kv.key = NAXIS1 ->
                              /\ IF parse_u64(kv.value).ok
                                 THEN naxis1' = parse_u64(kv.value).val /\ pc' = pc
                                 ELSE naxis1' = naxis1 /\ pc' = "panic"
                              /\ UNCHANGED <<naxis2, ctype1, ctype2, cards>>
                         [] kv.key = NAXIS2 ->
                              /\ IF parse_u64(kv.value).ok
                                 THEN naxis2' = parse_u64(kv.value).val /\ pc' = pc
                                 ELSE naxis2' = naxis2 /\ pc' = "panic"
                              /\ UNCHANGED <<naxis1, ctype1, ctype2, cards>>
                         [] kv.key = CTYPE1 ->
                              /\ ctype1' = remove(kv.value, "'")
                              /\ UNCHANGED <<naxis1, naxis2, ctype2, cards, pc>>
                         [] kv.key = CTYPE2 ->
                              /\ ctype2' = remove(kv.value, "'")
                              /\ UNCHANGED <<naxis1, naxis2, ctype1, cards, pc>>
                         [] OTHER ->
                              /\ cards' = IF parse_f64(kv.value).ok
                                          THEN insert(cards, kv.key, parse_f64(kv.value).val)
                                          ELSE cards
                              /\ UNCHANGED <<naxis1, naxis2, ctype1, ctype2, pc>>
    /\ UNCHANGED <<s, radesys, out>>

\* the loop ends and the WCSHeader is returned
new_return ==
    /\ pc = "new"
    /\ offset >= Len(s)
    /\ pc' = "parsed"
    /\ UNCHANGED <<s, radesys, offset, key, value, naxis1, naxis2, ctype1, ctype2, cards, out>>

get_naxisn(h, idx) ==
    LET v == CASE idx = 1 -> h.naxis1 [] idx = 2 -> h.naxis2 [] OTHER -> 0 IN
    IF v > 0 THEN Some(v) ELSE None

get_ctype(h, idx) ==
    LET v == CASE idx = 1 -> h.ctype1 [] idx = 2 -> h.ctype2 [] OTHER -> <<>> IN
    IF v = <<>> THEN Err(<<"MandatoryWCSKeywordsMissing", "CTYPE">>) ELSE Ok(v)

get_float(h, k) ==
    IF trim(k) \in DOMAIN h.cards THEN Some(Ok(h.cards[trim(k)])) ELSE None

-----------------------------------------------------------------------------
(* coo_system.rs *)

\* WCSHeader::get_radesys: the RADESYS code of the header, an error without one
get_radesys ==
    IF radesys.some THEN Ok(radesys.val)
    ELSE Err(<<"MandatoryWCSKeywordsMissing", "RADESYS">>)

RadeSys_parse ==
    LET code == get_radesys IN
    IF ~code.ok THEN code
    ELSE CASE code.val = "ICRS"     -> Ok("ICRS")
           [] code.val = "FK5"      -> Ok("Fk5")
           [] code.val = "FK4"      -> Ok("Fk4")
           [] code.val = "FK4-NO-E" -> Ok("Fk4NoE")
           [] code.val = "GAPPT"    -> Ok("GAPPT")
           [] OTHER                 -> Err(<<"UnrecognizedRadeSys", code.val>>)

EQUINOX == Chars("EQUINOX")

\* match ctype1.as_bytes()[0]
ByFirstByte(ct) ==
    IF ct = <<>> THEN Err(<<"panic", "index out of bounds">>)
    ELSE Ok(CASE ct[1] = "G" -> [sys |-> "GALACTIC"]
              [] ct[1] = "E" -> [sys |-> "ECLIPTIC"]
              [] ct[1] = "H" -> [sys |-> "HELIOECLIPTIC"]
              [] ct[1] = "S" -> [sys |-> "SUPERGALACTIC"]
              [] OTHER       -> [sys |-> "EQUATORIAL"])

EquinoxOf(h) ==
    IF get_float(h, EQUINOX).some /\ get_float(h, EQUINOX).val.ok
    THEN Ok(get_float(h, EQUINOX).val.val)
    ELSE Err(<<"MandatoryWCSKeywordsMissing", "EQUINOX">>)

\* the CTYPE1 heuristic consulted before the custom frame
CooSystem_parse_HeuristicFirst(h) ==
    LET equinox == EquinoxOf(h)
        rs      == RadeSys_parse
        ct      == get_ctype(h, 1)
    IN
    IF ct.ok /\ ct.val[1] \in {"G", "E", "H", "S"} THEN ByFirstByte(ct.val)
    ELSE IF rs.ok /\ equinox.ok
    THEN Ok([sys |-> "CUSTOM", radesys |-> rs.val, equinox |-> equinox.val])
    ELSE IF ~ct.ok THEN ct ELSE ByFirstByte(ct.val)

\* the EQUINOX and RADESYS errors surfaced with `?`
CooSystem_parse_Propagate(h) ==
    LET equinox == EquinoxOf(h)
        rs      == RadeSys_parse
    IN
    IF ~equinox.ok THEN equinox
    ELSE IF ~rs.ok THEN rs
    ELSE Ok([sys |-> "CUSTOM", radesys |-> rs.val, equinox |-> equinox.val])

CooSystem_parse(h) ==
    LET equinox == EquinoxOf(h)
        rs      == RadeSys_parse
    IN
    IF rs.ok /\ equinox.ok
    THEN Ok([sys |-> "CUSTOM", radesys |-> rs.val, equinox |-> equinox.val])
    ELSE LET ct == get_ctype(h, 1) IN
         IF ~ct.ok THEN ct ELSE ByFirstByte(ct.val)

coo_parse ==
    /\ pc = "parsed"
    /\ out' = [op |-> "CooSystem::parse", res |-> CooSystem_parse(Header)]
    /\ pc' = "resolved"
    /\ UNCHANGED <<s, radesys, offset, key, value, naxis1, naxis2, ctype1, ctype2, cards>>

-----------------------------------------------------------------------------
(* projection.rs *)

\* the key literals "PV_0    " .. "PV_20   "
PVName(k) == Chars("PV_") \o ToDec(k)

PVKey(k) == Pad(PVName(k), KeyWidth)

\* f64::to_radians, kept symbolic
to_radians(v) == [radians_of |-> v]

\* the skip_while predicate: the key was not found, or its value is no float
NotAFloat(v) == IF v.some THEN ~v.val.ok ELSE TRUE

\* Iterator::skip_while with that predicate
RECURSIVE skip_while(_)
skip_while(t) ==
    IF t # <<>> /\ NotAFloat(Head(t)) THEN skip_while(Tail(t)) ELSE t

Reverse(t) == [i \in 1..Len(t) |-> t[Len(t) + 1 - i]]

\* Option::unwrap_or
unwrap_or(opt, d) == IF opt.some THEN opt.val ELSE d

\* collect::<Result<Vec<_>, _>>(): the first error, or the values
Collect(t) ==
    IF \E i \in 1..Len(t) : ~t[i].ok
    THEN t[CHOOSE i \in 1..Len(t) : ~t[i].ok /\ \A j \in 1..(i - 1) : t[j].ok]
    ELSE Ok([i \in 1..Len(t) |-> t[i].val])

\* every absent card dropped, not only the trailing run
Zpn_coeffs_DropAbsent(h) ==
    LET looked == [i \in 1..(NPV + 1) |-> get_float(h, PVKey(NPV + 1 - i))]
        kept   == SelectSeq(looked, LAMBDA v : ~NotAFloat(v))
        got    == Collect([i \in 1..Len(kept) |-> unwrap_or(kept[i], Ok(Zero))])
    IN IF got.ok THEN Ok(Reverse(got.val)) ELSE got

\* the coefficients Zpn::parse_internal_proj_params hands to Zpn::from_params
Zpn_coeffs(h) ==
    LET looked == [i \in 1..(NPV + 1) |-> get_float(h, PVKey(NPV + 1 - i))]
        kept   == skip_while(looked)
        got    == Collect([i \in 1..Len(kept) |-> unwrap_or(kept[i], Ok(Zero))])
    IN IF got.ok THEN Ok(Reverse(got.val)) ELSE got

\* Zpn::from_params belongs to the projection library: it accepts the
\* polynomial or not
zpn_parse ==
    /\ pc = "parsed"
    /\ \E accepted \in BOOLEAN :
         out' = [op |-> "Zpn::parse_internal_proj_params",
                 coeffs |-> Zpn_coeffs(Header),
                 res |-> IF ~Zpn_coeffs(Header).ok THEN Zpn_coeffs(Header)
                         ELSE IF accepted THEN Ok([proj |-> "ZPN"])
                         ELSE Err(<<"InitProjection", "ZPN", "negative polynomial in [0, pi]">>)]
    /\ pc' = "resolved"
    /\ UNCHANGED <<s, radesys, offset, key, value, naxis1, naxis2, ctype1, ctype2, cards>>

Conics == {"COP", "COE", "COD", "COO"}

\* theta_a given a default, as the zenithal parameters have
Conic_parse_Defaulted(h, name) ==
    LET theta_a == unwrap_or(get_float(h, PVKey(1)), Ok(Zero))
        eta     == unwrap_or(get_float(h, PVKey(2)), Ok(Zero))
    IN
    IF ~theta_a.ok THEN theta_a
    ELSE IF ~eta.ok THEN eta
    ELSE Ok([proj |-> name, theta_a |-> to_radians(theta_a.val),
             eta |-> to_radians(eta.val)])

\* Cop / Coe / Cod / Coo ::parse_internal_proj_params
Conic_parse_internal_proj_params(h, name) ==
    IF get_float(h, PVKey(1)).some
    THEN LET theta_a == get_float(h, PVKey(1)).val
             eta     == unwrap_or(get_float(h, PVKey(2)), Ok(Zero))
         IN
         IF ~theta_a.ok THEN theta_a
         ELSE IF ~eta.ok THEN eta
         ELSE Ok([proj |-> name, theta_a |-> to_radians(theta_a.val),
                  eta |-> to_radians(eta.val)])
    ELSE Err(<<"InitProjection", name,
               "PV_1 = theta_a must be defined as it has no default value">>)

conic_parse(name) ==
    /\ pc = "parsed"
    /\ out' = [op |-> name, res |-> Conic_parse_internal_proj_params(Header, name)]
    /\ pc' = "resolved"
    /\ UNCHANGED <<s, radesys, offset, key, value, naxis1, naxis2, ctype1, ctype2, cards>>

-----------------------------------------------------------------------------
(* sip.rs *)

\* WCSHeader::get_int: the integer value of a numeric card, absent without one
get_int(h, k) ==
    LET f == get_float(h, k) IN
    IF ~f.some THEN None
    ELSE IF ~f.val.ok THEN Some(f.val)
    ELSE IF f.val.val.e = 0 THEN Some(Ok(f.val.val.m))
    ELSE Some(Err(<<"NumericParseFailure", k>>))

\* (0..=n).flat_map(|i| (0..=n).map(move |j| (i, j)))
AllPairs(n) ==
    IF n < 0 THEN <<>>
    ELSE [p \in 1..((n + 1) * (n + 1)) |-> <<(p - 1) \div (n + 1), (p - 1) % (n + 1)>>]

\* format!("{}_{}_{}   ", id, i, j)
CoeffKey(id, i, j) ==
    Chars(id) \o <<"_">> \o ToDec(i) \o <<"_">> \o ToDec(j) \o Chars("   ")

\* format!("{}_ORDER ", id)
OrderKey(id) == Chars(id) \o Chars("_ORDER ")

\* the pairs filtered with i + j < order
retrieve_sip_coeffs_Strict(h, id) ==
    LET order == get_int(h, OrderKey(id)) IN
    IF ~order.some THEN Ok(None)
    ELSE IF ~order.val.ok THEN order.val
    ELSE LET n     == order.val.val
             pairs == SelectSeq(AllPairs(n), LAMBDA p : p[1] + p[2] < n)
             got   == Collect([x \in 1..Len(pairs) |->
                         unwrap_or(get_float(h, CoeffKey(id, pairs[x][1], pairs[x][2])),
                                   Ok(Zero))])
         IN IF got.ok THEN Ok(Some(got.val)) ELSE got

retrieve_sip_coeffs(h, id) ==
    LET order == get_int(h, OrderKey(id)) IN
    IF ~order.some THEN Ok(None)
    ELSE IF ~order.val.ok THEN order.val
    ELSE LET n     == order.val.val
             pairs == SelectSeq(AllPairs(n), LAMBDA p : p[1] + p[2] <= n)
             got   == Collect([x \in 1..Len(pairs) |->
                         unwrap_or(get_float(h, CoeffKey(id, pairs[x][1], pairs[x][2])),
                                   Ok(Zero))])
         IN IF got.ok THEN Ok(Some(got.val)) ELSE got

\* SipCoeff::new(Box::new([]))
EmptyCoeffs == <<>>

\* the value parse_sip returns once the four families are read
SipOf(h, a, b, ap, bp, deproj, crpix1, crpix2) ==
    IF ~get_naxisn(h, 1).some THEN Err(<<"MandatoryWCSKeywordsMissing", "NAXIS1">>)
    ELSE IF ~get_naxisn(h, 2).some THEN Err(<<"MandatoryWCSKeywordsMissing", "NAXIS2">>)
    ELSE Ok([ab_proj   |-> [a |-> a, b |-> b],
             ab_deproj |-> deproj,
             u |-> <<0 - crpix1, get_naxisn(h, 1).val - crpix1>>,
             v |-> <<0 - crpix2, get_naxisn(h, 2).val - crpix2>>])

\* an absent A or B family refused
parse_sip_ForwardRequired(h, crpix1, crpix2) ==
    LET a  == retrieve_sip_coeffs(h, "A")
        b  == retrieve_sip_coeffs(h, "B")
        ap == retrieve_sip_coeffs(h, "AP")
        bp == retrieve_sip_coeffs(h, "BP")
    IN
    IF ~a.ok THEN a
    ELSE IF ~a.val.some THEN Err(<<"MandatoryWCSKeywordsMissing", "A_ORDER">>)
    ELSE IF ~b.ok THEN b
    ELSE IF ~b.val.some THEN Err(<<"MandatoryWCSKeywordsMissing", "B_ORDER">>)
    ELSE IF ~ap.ok THEN ap
    ELSE IF ~bp.ok THEN bp
    ELSE SipOf(h, a.val.val, b.val.val, ap.val, bp.val,
               IF ap.val.some /\ bp.val.some
               THEN Some([a |-> ap.val.val, b |-> bp.val.val]) ELSE None,
               crpix1, crpix2)

\* an inverse model built from AP alone
parse_sip_PartialInverse(h, crpix1, crpix2) ==
    LET a  == retrieve_sip_coeffs(h, "A")
        b  == retrieve_sip_coeffs(h, "B")
        ap == retrieve_sip_coeffs(h, "AP")
        bp == retrieve_sip_coeffs(h, "BP")
    IN
    IF ~a.ok THEN a
    ELSE IF ~b.ok THEN b
    ELSE IF ~ap.ok THEN ap
    ELSE IF ~bp.ok THEN bp
    ELSE SipOf(h, unwrap_or(a.val, EmptyCoeffs), unwrap_or(b.val, EmptyCoeffs),
               ap.val, bp.val,
               IF ap.val.some
               THEN Some([a |-> ap.val.val, b |-> unwrap_or(bp.val, EmptyCoeffs)])
               ELSE None,
               crpix1, crpix2)

parse_sip(h, crpix1, crpix2) ==
    LET a  == retrieve_sip_coeffs(h, "A")
        b  == retrieve_sip_coeffs(h, "B")
        ap == retrieve_sip_coeffs(h, "AP")
        bp == retrieve_sip_coeffs(h, "BP")
    IN
    IF ~a.ok THEN a
    ELSE IF ~b.ok THEN b
    ELSE IF ~ap.ok THEN ap
    ELSE IF ~bp.ok THEN bp
    ELSE SipOf(h, unwrap_or(a.val, EmptyCoeffs), unwrap_or(b.val, EmptyCoeffs),
               ap.val, bp.val,
               IF ap.val.some /\ bp.val.some
               THEN Some([a |-> ap.val.val, b |-> bp.val.val]) ELSE None,
               crpix1, crpix2)

Tags == {"A", "B", "AP", "BP"}

\* the reference pixels handed to parse_sip
CrpixInputs == {<<0, 0>>, <<50, 60>>}

sip_parse ==
    /\ pc = "parsed"
    /\ \E crpix \in CrpixInputs :
         out' = [op |-> "parse_sip", crpix |-> crpix,
                 res |-> parse_sip(Header, crpix[1], crpix[2])]
    /\ pc' = "resolved"
    /\ UNCHANGED <<s, radesys, offset, key, value, naxis1, naxis2, ctype1, ctype2, cards>>

sip_retrieve(id) ==
    /\ pc = "parsed"
    /\ out' = [op |-> "retrieve_sip_coeffs", id |-> id,
               res |-> retrieve_sip_coeffs(Header, id)]
    /\ pc' = "resolved"
    /\ UNCHANGED <<s, radesys, offset, key, value, naxis1, naxis2, ctype1, ctype2, cards>>

-----------------------------------------------------------------------------
(* Header texts *)

\* a record "KEY     = VALUE" filled to the record length
CardOf(k, v) == Pad(Pad(k, KeyWidth) \o Chars("= ") \o v, FITS_LINE_LENGTH)

Card(k, v) == CardOf(Chars(k), Chars(v))

\* a record without a keyword field
Raw(t) == Pad(Chars(t), FITS_LINE_LENGTH)

NoOut == [op |-> "none"]

InitHeader(texts, codes) ==
    /\ s \in texts
    /\ radesys \in codes
    /\ offset = 0
    /\ key = <<>>
    /\ value = <<>>
    /\ naxis1 = 0
    /\ naxis2 = 0
    /\ ctype1 = <<>>
    /\ ctype2 = <<>>
    /\ cards = <<>>
    /\ pc = "new"
    /\ out = NoOut

HeaderCards ==
    { Card("NAXIS1", "100"),
      Card("NAXIS2", "+200 / rows"),
      Card("NAXIS1", "-1"),
      Card("NAXIS2", "2.0"),
      Card("CTYPE1", "'RA---TAN'"),
      Card("CTYPE2", "'GLAT/TAN' / latitude"),
      Card("EQUINOX", "2000.0 / epoch"),
      Card("EQUINOX", "1950"),
      Card("CRVAL1", "-3.25 / [deg] = 0"),
      Card("CRVAL1", "1.5= 2.5"),
      Card("OBJECT", "'M31'"),
      Pad(Chars("= 7"), FITS_LINE_LENGTH),
      Raw("COMMENT no keyword here"),
      Raw("END") }

RECURSIVE TextsOf(_, _)
TextsOf(recs, n) ==
    IF n = 0 THEN {<<>>}
    ELSE LET shorter == TextsOf(recs, n - 1) IN
         shorter \cup {t \o r : t \in {x \in shorter : Len(x) = (n - 1) * FITS_LINE_LENGTH},
                                r \in recs}

\* a text that stops in the middle of a record
Partial == Chars("END")

HeaderTexts ==
    LET whole == TextsOf(HeaderCards, MaxRecords) IN
    whole \cup {t \o Partial : t \in whole}

NoRadesys == {None}

InitRecords == InitHeader(HeaderTexts, NoRadesys)

NextRecords == new_loop \/ new_return

SpecRecords == InitRecords /\ [][NextRecords]_vars

\* headers of the frame resolver: an optional EQUINOX card, an optional CTYPE1
EquinoxCards ==
    { <<>>, Card("EQUINOX", "2000.0"), Card("EQUINOX", "1950 / Besselian"),
      Card("EQUINOX", "'J2000'") }

Ctype1Cards ==
    { <<>>, Card("CTYPE1", "'GLON-TAN'"), Card("CTYPE1", "'ELON-TAN'"),
      Card("CTYPE1", "'HLON-TAN'"), Card("CTYPE1", "'SLON-TAN'"),
      Card("CTYPE1", "'RA---TAN'"), Card("CTYPE1", "''") }

FrameTexts == {c \o e : c \in Ctype1Cards, e \in EquinoxCards}

RadesysTable == {"ICRS", "FK5", "FK4", "FK4-NO-E", "GAPPT"}

RadesysCodes == {None} \cup {Some(c) : c \in RadesysTable \cup {"FK6", "icrs"}}

InitFrame == InitHeader(FrameTexts, RadesysCodes)

NextFrame == new_loop \/ new_return \/ coo_parse

SpecFrame == InitFrame /\ [][NextFrame]_vars

\* headers of the projection resolver: up to MaxPVCards cards among PV_0 .. PV_20
\* with a numeric value, k + 1, or a string value
PVValues(k) == {ToDec(k + 1) \o Chars(".0"), Chars("'x'")}

RECURSIVE PVTexts(_, _)
PVTexts(lo, n) ==
    IF n = 0 \/ lo > NPV THEN {<<>>}
    ELSE {<<>>} \cup
         UNION {{CardOf(PVName(k), v) \o t : v \in PVValues(k), t \in PVTexts(k + 1, n - 1)}
                : k \in lo..NPV}

InitProj == InitHeader(PVTexts(0, MaxPVCards), NoRadesys)

NextProj ==
    \/ new_loop
    \/ new_return
    \/ zpn_parse
    \/ \E name \in Conics : conic_parse(name)

SpecProj == InitProj /\ [][NextProj]_vars

\* headers of the distortion resolver: the axis lengths, an order card per
\* family, and at most one coefficient card
AxisCards ==
    { Card("NAXIS1", "100") \o Card("NAXIS2", "200"),
      Card("NAXIS2", "200"),
      Card("NAXIS1", "100") \o Card("NAXIS2", "0") }

OrderCards(id) ==
    {<<>>} \cup {CardOf(Chars(id) \o Chars("_ORDER"), ToDec(n)) : n \in 0..MaxOrder}

CoeffCards ==
    { <<>>, Card("A_0_2", "1.5"), Card("B_1_1", "-2.0"),
      Card("AP_1_0", "0.5 / inverse"), Card("BP_0_0", "3") }

SipTexts ==
    {x \o a \o b \o ap \o bp \o c :
        x \in AxisCards, a \in OrderCards("A"), b \in OrderCards("B"),
        ap \in OrderCards("AP"), bp \in OrderCards("BP"), c \in CoeffCards}

InitSip == InitHeader(SipTexts, NoRadesys)

NextSip ==
    \/ new_loop
    \/ new_return
    \/ sip_parse
    \/ \E id \in Tags : sip_retrieve(id)

SpecSip == InitSip /\ [][NextSip]_vars

-----------------------------------------------------------------------------
(* Records of a header text, as the claims speak of them *)

NRecords(text) == Len(text) \div FITS_LINE_LENGTH

Record(text, i) == Line(text, (i - 1) * FITS_LINE_LENGTH)

SpecialKeys == {NAXIS1, NAXIS2, CTYPE1, CTYPE2}

\* the index of the first '/' of t outside single quotes, 0 if there is none
RECURSIVE UnquotedSlash(_, _, _)
UnquotedSlash(t, i, quoted) ==
    IF i > Len(t) THEN 0
    ELSE IF t[i] = "'" THEN UnquotedSlash(t, i + 1, ~quoted)
    ELSE IF t[i] = "/" /\ ~quoted THEN i
    ELSE UnquotedSlash(t, i + 1, quoted)

\* the value of a record as section 4.1 defines it: all the text after the
\* first "= ", without what follows the first unquoted '/', trimmed
StatedValue(line) ==
    LET d    == find(line, <<"=", " ">>)
        rest == SubSeq(line, d + 2, Len(line))
        c    == UnquotedSlash(rest, 1, FALSE)
    IN trim(IF c = 0 THEN rest ELSE SubSeq(rest, 1, c - 1))

\* C6: WCSHeader::new fails only in the fatal axis-length case: whenever it
\* does not return a snapshot, some record with key NAXIS1 or NAXIS2 has a
\* value that is no unsigned integer (a trailing partial record is ignored).
C6_FailsOnlyOnAxisLength ==
    pc = "panic" =>
        \E i \in 1..NRecords(s) :
            /\ HasKeyValue(Record(s, i))
            /\ LineKey(Record(s, i)) \in {NAXIS1, NAXIS2}
            /\ ~parse_u64(LineValue(Record(s, i))).ok

\* C9: the value extracted from a record is the text after the first "= "
\* with everything from the first unquoted '/' removed, trimmed: a '/' inside
\* single quotes and a later "= " leave it unchanged.
C9_ValueExtraction ==
    (offset > 0 /\ HasKeyValue(Line(s, offset - FITS_LINE_LENGTH)))
        => value = StatedValue(Line(s, offset - FITS_LINE_LENGTH))

\* the records of a text, each split into key and value
RECURSIVE ParsedUpTo(_, _)
ParsedUpTo(text, n) ==
    IF n = 0 THEN <<>>
    ELSE Append(ParsedUpTo(text, n - 1), KeyValue(Record(text, n)))

Parsed(text) == ParsedUpTo(text, NRecords(text))

\* the numeric card k of the first n records: the last of them with key k and
\* a value that parses as a float
LastFloat(kvs, n, k) ==
    LET hits == {i \in 1..n : kvs[i].has /\ kvs[i].key = k /\ parse_f64(kvs[i].value).ok}
    IN IF hits = {} THEN None
       ELSE LET last == CHOOSE i \in hits : \A j \in hits : j <= i
            IN Some(Ok(parse_f64(kvs[last].value).val))

\* the numeric card k of the whole text
CardIn(kvs, k) == LastFloat(kvs, Len(kvs), k)

ProbeKeys ==
    ({LineKey(r) : r \in {c \in HeaderCards : HasKeyValue(c)}} \cup {Chars("CRPIX1")})
        \ SpecialKeys

-----------------------------------------------------------------------------
(* The frame resolver *)

FamilyOf(code) ==
    CASE code = "ICRS" -> "ICRS" [] code = "FK5" -> "Fk5" [] code = "FK4" -> "Fk4"
      [] code = "FK4-NO-E" -> "Fk4NoE" [] code = "GAPPT" -> "GAPPT"

\* a numeric EQUINOX card and a RADESYS code of the table
CustomCase(kvs) ==
    /\ CardIn(kvs, EQUINOX).some
    /\ radesys.some
    /\ radesys.val \in RadesysTable

\* C1: with a numeric EQUINOX card and a RADESYS of the table, CooSystem::parse
\* returns CUSTOM with that frame family and that equinox, whatever CTYPE1 is,
\* never one of the five fixed frames and never an error.
C1_CustomDominates ==
    out.op = "CooSystem::parse" =>
        LET kvs == Parsed(s) IN
        CustomCase(kvs) =>
            out.res = Ok([sys     |-> "CUSTOM",
                          radesys |-> FamilyOf(radesys.val),
                          equinox |-> CardIn(kvs, EQUINOX).val.val])

\* C1 witness: RADESYS = ICRS, EQUINOX = 2000.0, CTYPE1 = 'GLON-TAN'
W_C1_CustomOverGalactic ==
    /\ out.op = "CooSystem::parse"
    /\ radesys = Some("ICRS")
    /\ ctype1 = Chars("GLON-TAN")
    /\ CardIn(Parsed(s), EQUINOX) = Some(Ok(F64(2000, 0)))
    /\ out.res = Ok([sys |-> "CUSTOM", radesys |-> "ICRS", equinox |-> F64(2000, 0)])

FixedFrame(c) ==
    CASE c = "G" -> "GALACTIC" [] c = "E" -> "ECLIPTIC" [] c = "H" -> "HELIOECLIPTIC"
      [] c = "S" -> "SUPERGALACTIC" [] OTHER -> "EQUATORIAL"

\* C8: without both a numeric EQUINOX and a recognized RADESYS, CooSystem::parse
\* returns the frame of the first character of CTYPE1, and fails exactly when
\* CTYPE1 is absent or empty, with MandatoryWCSKeywordsMissing("CTYPE"); the
\* missing EQUINOX or unrecognized RADESYS is never the error and no empty
\* CTYPE1 is indexed.
C8_Fallback ==
    out.op = "CooSystem::parse" =>
        LET kvs == Parsed(s) IN
        ~CustomCase(kvs) =>
            IF ctype1 = <<>>
            THEN out.res = Err(<<"MandatoryWCSKeywordsMissing", "CTYPE">>)
            ELSE out.res = Ok([sys |-> FixedFrame(ctype1[1])])

\* C8 witness: RADESYS recognized but no EQUINOX, CTYPE1 = 'HLON-TAN'
W_C8_RadesysWithoutEquinox ==
    /\ out.op = "CooSystem::parse"
    /\ radesys = Some("FK5")
    /\ ~CardIn(Parsed(s), EQUINOX).some
    /\ ctype1 = Chars("HLON-TAN")
    /\ out.res = Ok([sys |-> "HELIOECLIPTIC"])

\* C8 second witness: neither path: no CTYPE1, an unrecognized RADESYS
W_C8_NoCtype ==
    /\ out.op = "CooSystem::parse"
    /\ radesys = Some("FK6")
    /\ CardIn(Parsed(s), EQUINOX).some
    /\ ctype1 = <<>>
    /\ out.res = Err(<<"MandatoryWCSKeywordsMissing", "CTYPE">>)

-----------------------------------------------------------------------------
(* The projection resolver *)

\* the indices k in 0..20 with a numeric PV_k card
PVPresent(kvs) == {k \in 0..NPV : CardIn(kvs, PVName(k)).some}

Highest(S) == CHOOSE k \in S : \A j \in S : j <= k

\* C4: the coefficients handed to Zpn::from_params are PV_0 .. PV_k in
\* ascending order, k the highest index in 0..20 with a PV card (none when
\* there is no card), an absent card below k counting as 0.0.
C4_ZpnTrimming ==
    out.op = "Zpn::parse_internal_proj_params" =>
        LET kvs == Parsed(s)
            P   == PVPresent(kvs)
        IN
        /\ out.coeffs.ok
        /\ IF P = {} THEN out.coeffs.val = <<>>
           ELSE /\ Len(out.coeffs.val) = Highest(P) + 1
                /\ \A m \in 0..Highest(P) :
                      out.coeffs.val[m + 1] =
                          IF m \in P THEN CardIn(kvs, PVName(m)).val.val ELSE Zero

\* C4 witness: PV_0 = 1.0 and PV_1 = 2.0 alone give [1.0, 2.0]
W_C4_TwoCoefficients ==
    /\ out.op = "Zpn::parse_internal_proj_params"
    /\ out.coeffs = Ok(<<F64(1, 0), F64(2, 0)>>)
    /\ PVPresent(Parsed(s)) = {0, 1}

\* C4 second witness: an interior gap is kept as 0.0
W_C4_InteriorGap ==
    /\ out.op = "Zpn::parse_internal_proj_params"
    /\ out.coeffs.ok
    /\ Len(out.coeffs.val) = 4
    /\ out.coeffs.val[2] = Zero
    /\ out.coeffs.val[3] = Zero
    /\ PVPresent(Parsed(s)) = {0, 3}

\* C5: a conic projection fails with InitProjection, naming the projection and
\* the missing default of theta_a, exactly when PV_1 is absent; with PV_1
\* present it succeeds with theta_a = PV_1 and eta = PV_2, or 0 without PV_2.
C5_ConicThetaA ==
    out.op \in Conics =>
        LET kvs == Parsed(s)
            pv1 == CardIn(kvs, PVName(1))
            pv2 == CardIn(kvs, PVName(2))
        IN
        IF ~pv1.some
        THEN out.res = Err(<<"InitProjection", out.op,
                             "PV_1 = theta_a must be defined as it has no default value">>)
        ELSE out.res = Ok([proj    |-> out.op,
                           theta_a |-> to_radians(pv1.val.val),
                           eta     |-> to_radians(IF pv2.some THEN pv2.val.val ELSE Zero)])

\* C5 witness: COE without PV_1, though PV_2 is there
W_C5_NoThetaA ==
    /\ out.op = "COE"
    /\ ~out.res.ok
    /\ PVPresent(Parsed(s)) = {2}

\* C5 second witness: COD with PV_1 alone
W_C5_EtaDefault ==
    /\ out.op = "COD"
    /\ out.res.ok
    /\ out.res.val.eta = to_radians(Zero)
    /\ PVPresent(Parsed(s)) = {1}

-----------------------------------------------------------------------------
(* The distortion resolver *)

OrderName(id) == Chars(id) \o Chars("_ORDER")

CoeffName(id, i, j) == Chars(id) \o <<"_">> \o ToDec(i) \o <<"_">> \o ToDec(j)

OrderPresent(kvs, id) == CardIn(kvs, OrderName(id)).some

OrderOf(kvs, id) == CardIn(kvs, OrderName(id)).val.val.m

AxesPresent == get_naxisn(Header, 1).some /\ get_naxisn(Header, 2).some

\* the place of (i, j) among the pairs with i + j <= n, ordered by i then j
Place(i, j, n) == i * (n + 1) - (i * (i - 1)) \div 2 + j + 1

C3_InverseBothOrNothing ==
    out.op = "parse_sip" =>
        LET kvs  == Parsed(s)
            both == OrderPresent(kvs, "AP") /\ OrderPresent(kvs, "BP")
            one  == OrderPresent(kvs, "AP") # OrderPresent(kvs, "BP")
        IN
        /\ out.res.ok => (out.res.val.ab_deproj.some <=> both)
        /\ (AxesPresent /\ one) => (out.res.ok /\ out.res.val.ab_deproj = None)

\* C3 witness: AP_ORDER alone, with a coefficient that is dropped
W_C3_OnlyAP ==
    /\ out.op = "parse_sip"
    /\ out.res.ok
    /\ out.res.val.ab_deproj = None
    /\ LET kvs == Parsed(s) IN
       /\ OrderPresent(kvs, "AP") /\ OrderOf(kvs, "AP") >= 1
       /\ ~OrderPresent(kvs, "BP")
       /\ CardIn(kvs, CoeffName("AP", 1, 0)).some

\* C3 second witness: both inverse families, and the inverse model is there
W_C3_Both ==
    /\ out.op = "parse_sip"
    /\ out.res.ok
    /\ out.res.val.ab_deproj.some
    /\ LET kvs == Parsed(s) IN OrderPresent(kvs, "AP") /\ OrderPresent(kvs, "BP")

\* C7: for a family whose order card is n >= 0, retrieve_sip_coeffs gives
\* (n+1)(n+2)/2 coefficients, one per pair (i, j) with i + j <= n, ordered by
\* i then j, each the value of card <tag>_<i>_<j> or 0.0 without that card.
C7_Triangular ==
    out.op = "retrieve_sip_coeffs" =>
        LET kvs == Parsed(s)
            n   == OrderOf(kvs, out.id)
        IN
        (OrderPresent(kvs, out.id) /\ n >= 0) =>
            /\ out.res.ok
            /\ out.res.val.some
            /\ Len(out.res.val.val) * 2 = (n + 1) * (n + 2)
            /\ \A i \in 0..n : \A j \in 0..(n - i) :
                  out.res.val.val[Place(i, j, n)] =
                      LET c == CardIn(kvs, CoeffName(out.id, i, j)) IN
                      IF c.some THEN c.val.val ELSE Zero

\* C7 witness: A_ORDER = 2 with the card A_0_2 alone: six coefficients, the
\* third one A_0_2
W_C7_SixCoefficients ==
    /\ out.op = "retrieve_sip_coeffs"
    /\ out.id = "A"
    /\ out.res = Ok(Some(<<Zero, Zero, F64(15, 1), Zero, Zero, Zero>>))
    /\ LET kvs == Parsed(s) IN
       /\ OrderPresent(kvs, "A") /\ OrderOf(kvs, "A") = 2
       /\ CardIn(kvs, CoeffName("A", 0, 2)) = Some(Ok(F64(15, 1)))

====
